---- MODULE Spec2Model ----
(***************************************************************************)
(* Model of deploy.py: the GKE/Jenkins deployment orchestrator.            *)
(*                                                                         *)
(* Strings are sequences of atoms.  An atom is either one special          *)
(* character ("=", " ", "\n", "\t", the double quote, "_") or a word of    *)
(* ordinary characters; the words used are never concatenations of each    *)
(* other, so two strings are equal exactly when their sequences are equal. *)
(* Directory names under /tmp are naturals ordered as the names sort.      *)
(***************************************************************************)
EXTENDS Naturals, Integers, Sequences, FiniteSets, TLC

VARIABLES now, tmp, plugin_cache, live, tfvars, state_record, method,
          kubefile, pc, run_dir, vars, cluster_exists, created, trace,
          bind, exit_code, reruns, call, ret, inventory, outcome

allvars == <<now, tmp, plugin_cache, live, tfvars, state_record, method,
             kubefile, pc, run_dir, vars, cluster_exists, created, trace,
             bind, exit_code, reruns, call, ret, inventory, outcome>>

(* ------------------------------ bounds --------------------------------- *)
\* number of invocations of the program the environment may start
NumProcs == 2
\* lines of a variable file handed to read_tfvars on its own
MaxLines == 2
\* entries of /tmp present at start whose names sort before every new stamp
MaxOld == 1
\* entries of /tmp present at start whose names sort after every new stamp:
\* the stamp is local wall-clock time (line 64), which can be set back, and
\* cleanup_old_runs takes every entry that starts with deployment_ (line 387)
MaxLate == 5
\* number of clock seconds that pass while the invocations run
MaxTicks == 1
\* number of times the program is run again after a run has ended
MaxReruns == 1

\* the resources that may be live in the cloud when the invocations start:
\* nothing, the cluster only, everything
LiveSets == {{}, {"cluster"}, {"cluster", "disk", "pvc", "role_binding"}}

Procs == 1..NumProcs
FirstNow == MaxOld + 1
LastNow == FirstNow + MaxTicks
OldNames == 1..MaxOld
LateNames == (LastNow + 1)..(LastNow + MaxLate)

\* Python's None where a string is expected: a string no command prints
None == <<"None">>
QUOTE == "\""
Whitespace == {" ", "\n", "\t"}
Kinds == {"cluster", "disk", "pvc", "role_binding"}

(* --------------------------- string helpers ---------------------------- *)
Range(s) == {s[i] : i \in DOMAIN s}

\* str.strip(chars): drop every leading and trailing atom that is in chars
RECURSIVE LStrip(_, _)
LStrip(s, chars) ==
    IF s # <<>> /\ Head(s) \in chars THEN LStrip(Tail(s), chars) ELSE s

RECURSIVE RStrip(_, _)
RStrip(s, chars) ==
    IF s # <<>> /\ s[Len(s)] \in chars
    THEN RStrip(SubSeq(s, 1, Len(s) - 1), chars) ELSE s

strip(s, chars) == RStrip(LStrip(s, chars), chars)

\* index of the first occurrence of atom a in s (a must occur)
find(s, a) == CHOOSE i \in DOMAIN s : s[i] = a /\ \A j \in 1..(i - 1) : s[j] # a

(* ------------------------------ read_tfvars ---------------------------- *)
\* a slip in line 56: the double quotes around the value are kept
tfvars_line_keeps_quotes(d, line) ==
    IF "=" \in Range(line)
    THEN LET i == find(line, "=")
             name == SubSeq(line, 1, i - 1)
             value == SubSeq(line, i + 1, Len(line))
         IN (strip(name, Whitespace) :> strip(value, Whitespace)) @@ d
    ELSE d

\* one iteration of the loop body, lines 54-56
tfvars_line(d, line) ==
    IF "=" \in Range(line)
    THEN LET i == find(line, "=")
             name == SubSeq(line, 1, i - 1)
             value == SubSeq(line, i + 1, Len(line))
         IN (strip(name, Whitespace) :> strip(strip(value, Whitespace), {QUOTE}))
            @@ d
    ELSE d

RECURSIVE tfvars_lines(_, _)
tfvars_lines(d, lines) ==
    IF lines = <<>> THEN d
    ELSE tfvars_lines(tfvars_line(d, Head(lines)), Tail(lines))

EmptyDict == [k \in {} |-> <<>>]

\* the mapping read_tfvars returns for a readable file
read_tfvars(lines) == tfvars_lines(EmptyDict, lines)

KeyLine(k, v) == <<k, " ", "=", " ", QUOTE>> \o v \o <<QUOTE, "\n">>
Comment == <<"#", " ", "comment", "\n">>
K_project == <<"project">>
K_zone == <<"zone">>
K_cluster_name == <<"cluster_name">>

File(lines) == [exists |-> TRUE, lines |-> lines]
NoFile == [exists |-> FALSE, lines |-> <<>>]

\* contents terraform/variables.tfvars may have
CompleteFile ==
    File(<<KeyLine("project", <<"p1">>), Comment, KeyLine("zone", <<"z1">>),
           KeyLine("cluster_name", <<"c1">>)>>)

TfvarsFiles ==
    { NoFile, File(<<Comment>>), CompleteFile, File(
      <<KeyLine("zone", <<"z1">>), KeyLine("cluster_name", <<"c1">>)>>), File(
      <<KeyLine("project", <<"p1">>), KeyLine("cluster_name", <<"c1">>)>>), File(
      <<KeyLine("project", <<"p1">>), KeyLine("zone", <<"z1">>)>>), File(
      <<KeyLine("project", <<"p1">>), KeyLine("zone", <<>>),
        KeyLine("cluster_name", <<"c1">>)>>) }

has(d, k) == k \in DOMAIN d

(* --------------------------- context names ----------------------------- *)
\* f"gke_{project}_{zone}_{cluster_name}"
context_name(project, zone, cluster_name) ==
    <<"gke", "_">> \o project \o <<"_">> \o zone \o <<"_">> \o cluster_name

(* ------------------------------ run_command --------------------------- *)
\* what subprocess.run(command, check=True) meets: the executable was started
\* and ended with returncode having printed stdout, or could not be found
Completed(returncode, stdout) ==
    [started |-> TRUE, returncode |-> returncode, stdout |-> stdout]

NotFound == [started |-> FALSE, returncode |-> 0 - 1, stdout |-> <<>>]

Return(value) == <<"return", value>>
Raise(exception) == <<"raise", <<exception>>>>

\* lines 30-38: CalledProcessError (a non-zero exit) is the only exception
\* caught; the FileNotFoundError of a missing executable goes to the caller
run_command(process) ==
    IF ~process.started THEN Raise("FileNotFoundError")
    ELSE IF process.returncode # 0 THEN Return(None)
    ELSE Return(process.stdout)

(* ----------------------- parse_json / existence ------------------------ *)
Obj == "{..}"
\* json.loads on the texts a listing can print: a list of objects, an empty
\* object, null, a number; every other text raises JSONDecodeError
json_list(s) ==
    /\ Len(s) >= 2
    /\ s[1] = "[" /\ s[Len(s)] = "]"
    /\ \A i \in 2..(Len(s) - 1) : s[i] = Obj

parse_json(json_string) ==
    IF json_list(json_string) THEN [kind |-> "list", n |-> Len(json_string) - 2]
    ELSE IF json_string = <<"{}">> THEN [kind |-> "dict", n |-> 0]
    ELSE IF json_string = <<"0">> THEN [kind |-> "num", n |-> 0]
    ELSE [kind |-> "None", n |-> 0]

\* Python truthiness of a parsed value
bool(parsed) == parsed.kind # "None" /\ parsed.n # 0

check_resource_exists(output) ==
    IF output = None THEN FALSE ELSE bool(parse_json(output))

\* what the listing command can yield when the resource is live or not
ListingOutputs(is_live) ==
    {None, <<"ERROR">>} \cup {IF is_live THEN <<"[", Obj, "]">> ELSE <<"[", "]">>}

(* ------------------------- create_or_configure ------------------------- *)
\* TRUE when create_func is called (main does not call this function: it
\* repeats the test for the cluster, line 359)
create_or_configure_resource(exists) == ~exists

\* a slip in the branch: the creation no longer depends on the check
main_creates_cluster_always(exists) == TRUE

\* a slip in the branch: the test is inverted
main_creates_cluster_inverted(exists) == exists

\* main's own branch for the cluster, line 359
main_creates_cluster(exists) == ~exists

(* --------------------------- create_cluster ---------------------------- *)
\* what terraform show can yield for the state staged in the run directory
ShowOutputs(recorded) ==
    {None} \cup {IF recorded
                 THEN <<"#", " ", "google_container_cluster", ".", "primary", ":">>
                 ELSE <<"No", " ", "state.">>}

\* line 182: show_result and 'google_container_cluster' in show_result
stale_record(show_result) ==
    /\ show_result # None
    /\ show_result # <<>>
    /\ "google_container_cluster" \in Range(show_result)

(* ------------------------ set_kubernetes_context ----------------------- *)
\* the value set_kubernetes_context returns, given the results of its three
\* run_command calls (use is not looked at: lines 281-284)
set_kubernetes_context_ret(creds, view, use) ==
    /\ creds # None
    /\ view # None /\ view # <<>>

(* --------------------------- cleanup_old_runs -------------------------- *)
max_runs == 5

Max(S) == CHOOSE x \in S : \A y \in S : y <= x

\* sorted(..., reverse=True)
RECURSIVE sorted_reverse(_)
sorted_reverse(S) ==
    IF S = {} THEN <<>> ELSE <<Max(S)>> \o sorted_reverse(S \ {Max(S)})

\* a slip in the ordering: the entries after the max_runs oldest ones
old_runs_ascending(entries) ==
    LET runs == sorted_reverse(entries)
    IN SubSeq(runs, 1, IF Len(runs) > max_runs THEN Len(runs) - max_runs ELSE 0)

\* runs[max_runs:]
old_runs(entries) ==
    LET runs == sorted_reverse(entries)
    IN SubSeq(runs, max_runs + 1, Len(runs))

(* ------------------------------- main ---------------------------------- *)
Running == 0 - 1

Goto(p, label) == pc' = [pc EXCEPT ![p] = label] /\ UNCHANGED exit_code

\* sys.exit(code), or an uncaught exception (the interpreter exits with 1)
Exit(p, code) ==
    /\ pc' = [pc EXCEPT ![p] = "exit"]
    /\ exit_code' = [exit_code EXCEPT ![p] = code]

Log(p, events) == trace' = [trace EXCEPT ![p] = @ \o events]

\* the run directory of p is still on disk
DirPresent(p) == run_dir[p] \in tmp

Status(out) == IF out = None THEN "fail" ELSE "ok"

NoBind == [creds |-> "skipped", view |-> "skipped", use |-> "skipped", ret |-> "unset"]

\* what the commands of the later steps of main yielded, once they have run
NoOutcome == [show |-> "skipped", rm |-> "skipped", apply |-> "skipped",
              cluster_info |-> "skipped", ansible |-> "skipped"]

\* lines 338-341: stage the run directory, name the credential file in it
prepare_running_directory(p) ==
    /\ pc[p] = "prepare_running_directory"
    /\ run_dir' = [run_dir EXCEPT ![p] = now]
    /\ tmp' = tmp \cup {now}
    /\ plugin_cache' = FALSE
    /\ Log(p, <<"makedirs">> \o
              (IF plugin_cache THEN <<"rmtree_plugin_cache">> ELSE <<>>))
    /\ Goto(p, "install_dependency")
    /\ UNCHANGED <<now, live, tfvars, state_record, method, kubefile,
                   vars, cluster_exists, created, bind, reruns, call, ret, inventory, outcome>>

\* lines 344-349: the four install_dependency calls and the two pip installs;
\* fatal when kubectl, terraform or helm is absent and its install fails
install_dependency(p) ==
    /\ pc[p] = "install_dependency"
    /\ Log(p, <<"install_dependency">>)
    /\ \E fatal \in BOOLEAN :
          IF fatal THEN Exit(p, 1) ELSE Goto(p, "read_tfvars")
    /\ UNCHANGED <<now, tmp, plugin_cache, live,
                   tfvars, state_record, method, kubefile, run_dir, vars, cluster_exists, created,
                   bind, reruns, call, ret, inventory, outcome>>

\* line 352
main_read_tfvars(p) ==
    /\ pc[p] = "read_tfvars"
    /\ IF tfvars.exists /\ DirPresent(p)
       THEN /\ vars' = [vars EXCEPT ![p] = read_tfvars(tfvars.lines)]
            /\ Goto(p, "set_gcp_project")
       ELSE /\ Exit(p, 1)
            /\ UNCHANGED vars
    /\ UNCHANGED <<now, tmp, plugin_cache, live,
                   tfvars, state_record, method, kubefile, run_dir, cluster_exists, created, trace,
                   bind, reruns, call, ret, inventory, outcome>>

\* line 355
set_gcp_project(p) ==
    /\ pc[p] = "set_gcp_project"
    /\ IF has(vars[p], K_project)
       THEN /\ Log(p, <<"gcloud_config_set_project">>)
            /\ Goto(p, "check_cluster_exists")
       ELSE /\ Exit(p, 1)
            /\ UNCHANGED trace
    /\ UNCHANGED <<now, tmp, plugin_cache, live,
                   tfvars, state_record, method, kubefile, run_dir, vars, cluster_exists, created,
                   bind, reruns, call, ret, inventory, outcome>>

\* lines 358-365 up to the call of create_cluster
check_cluster_exists(p) ==
    /\ pc[p] = "check_cluster_exists"
    /\ IF has(vars[p], K_cluster_name)
       THEN \E output \in ListingOutputs("cluster" \in live) :
              LET exists == check_resource_exists(output) IN
              /\ cluster_exists' = [cluster_exists EXCEPT ![p] =
                                      IF exists THEN "True" ELSE "False"]
              /\ IF main_creates_cluster(exists)
                 THEN /\ Log(p, <<"list_clusters", "log_creating_cluster">>)
                      /\ Goto(p, "create_cluster")
                 ELSE /\ Log(p, <<"list_clusters", "log_cluster_already_exists">>)
                      /\ Goto(p, "set_kubernetes_context")
       ELSE /\ Exit(p, 1)
            /\ UNCHANGED <<cluster_exists, trace>>
    /\ UNCHANGED <<now, tmp, plugin_cache, live,
                   tfvars, state_record, method, kubefile, run_dir, vars, created, bind, reruns, call, ret, inventory, outcome>>

\* lines 361-363 with create_cluster, lines 168-197
create_cluster(p) ==
    /\ pc[p] = "create_cluster"
    /\ created' = [created EXCEPT ![p]["cluster"] = @ + 1]
    /\ IF ~DirPresent(p)
       THEN /\ Exit(p, 1)
            /\ UNCHANGED <<trace, live, outcome>>
       ELSE \E show_result \in ShowOutputs(state_record),
               rm_result \in {None, <<"Removed">>},
               result \in {None, <<"Apply", " ", "complete">>} :
              /\ Log(p, <<"terraform_init", "terraform_show">> \o
                        (IF stale_record(show_result)
                         THEN <<"terraform_state_rm">> ELSE <<>>) \o
                        <<"terraform_apply">>)
              /\ outcome' = [outcome EXCEPT ![p].show = Status(show_result),
                                            ![p].rm = IF stale_record(show_result)
                                                      THEN Status(rm_result)
                                                      ELSE "skipped",
                                            ![p].apply = Status(result)]
              /\ IF result # None
                 THEN /\ live' = live \cup {"cluster"}
                      /\ Goto(p, "set_kubernetes_context")
                 ELSE /\ UNCHANGED live
                      /\ Exit(p, 1)
    /\ UNCHANGED <<now, tmp, plugin_cache, tfvars, state_record, method,
                   kubefile, run_dir, vars, cluster_exists, bind, reruns, call, ret,
                   inventory>>

AllNames == 1..(LastNow + MaxLate)

expected_context(d) == context_name(d[K_project], d[K_zone], d[K_cluster_name])

\* a context of another cluster: same project and cluster name, another zone
OtherContext == context_name(<<"p1">>, <<"z2">>, <<"c1">>)

\* the current-context entry of the raw configuration kubectl prints
AmbientContexts(d) == {expected_context(d), OtherContext}

\* lines 368-370 with set_kubernetes_context, lines 258-286
set_kubernetes_context(p) ==
    /\ pc[p] = "set_kubernetes_context"
    /\ IF ~has(vars[p], K_zone)
       THEN /\ Exit(p, 1)
            /\ UNCHANGED <<trace, kubefile, bind>>
       ELSE \E creds \in {None, <<>>},
               config_content \in {None, <<>>, <<"apiVersion">>},
               set_context_result \in {None, <<"Switched">>},
               ambient \in AmbientContexts(vars[p]) :
              LET viewed == creds # None
                  wrote == viewed /\ config_content # None /\ config_content # <<>>
                  result == set_kubernetes_context_ret(creds, config_content,
                                                       set_context_result)
              IN
              \* a call that is not made has no result, and the raw
              \* configuration's own context shows only when use-context fails
              /\ ~viewed => config_content = None
              /\ ~wrote => set_context_result = None
              /\ (~wrote \/ set_context_result # None) => ambient = OtherContext
              /\ IF wrote /\ ~DirPresent(p)
                 THEN \* open(kube_config, 'w') raises
                      /\ Log(p, <<"get_credentials", "config_view">>)
                      /\ Exit(p, 1)
                      /\ UNCHANGED <<kubefile, bind>>
                 ELSE /\ Log(p, <<"get_credentials">> \o
                                (IF viewed THEN <<"config_view">> ELSE <<>>) \o
                                (IF wrote THEN <<"use_context">> ELSE <<>>))
                      /\ kubefile' =
                           IF ~wrote THEN kubefile
                           ELSE [kubefile EXCEPT ![run_dir[p]] =
                                   IF set_context_result # None
                                   THEN expected_context(vars[p]) ELSE ambient]
                      /\ bind' = [bind EXCEPT ![p] =
                                   [creds |-> Status(creds),
                                    view |-> IF ~viewed THEN "skipped"
                                             ELSE IF config_content = <<>> THEN "empty"
                                             ELSE Status(config_content),
                                    use |-> IF ~wrote THEN "skipped"
                                            ELSE Status(set_context_result),
                                    ret |-> IF result THEN "True" ELSE "False"]]
                      /\ IF result
                         THEN Goto(p, "verify_kubectl_connectivity")
                         ELSE Exit(p, 1)
    /\ UNCHANGED <<now, tmp, plugin_cache, live,
                   tfvars, state_record, method, run_dir, vars, cluster_exists, created, reruns, call, ret, inventory, outcome>>

\* a slip in the test: the connectivity check reports success whatever
\* cluster-info yielded
connected_always(result) == TRUE

\* lines 293-297: the value verify_kubectl_connectivity returns
connected(result) == result # None

\* lines 373-375 with verify_kubectl_connectivity, lines 289-297
verify_kubectl_connectivity(p) ==
    /\ pc[p] = "verify_kubectl_connectivity"
    /\ Log(p, <<"cluster_info">>)
    /\ \E result \in {None, <<"Kubernetes", " ", "control", " ", "plane">>} :
          /\ outcome' = [outcome EXCEPT ![p].cluster_info = Status(result)]
          /\ IF connected(result) THEN Goto(p, "run_ansible") ELSE Exit(p, 1)
    /\ UNCHANGED <<now, tmp, plugin_cache, live,
                   tfvars, state_record, method, kubefile, run_dir, vars, cluster_exists, created,
                   bind, reruns, call, ret, inventory>>

\* line 327: the choices of --method
Methods == {"kubectl", "helm"}

\* a slip in line 238: the method is not looked at
playbook_manifest_only(m) == "deploy_jenkins.yml"

\* line 238
playbook(m) ==
    IF m = "kubectl" THEN "deploy_jenkins.yml" ELSE "deploy_jenkins_helm.yml"

\* where run_ansible can be left by an exception: writing the inventory after
\* mkstemp has made the file (lines 221-223: the disk is full), reading it
\* back for the debug log (lines 234-235), and starting the runner (line 246:
\* ansible-playbook cannot be found); only the last is inside the try of
\* line 237
RaisePoints == {"none", "yaml_dump", "read_inventory", "subprocess_run"}

\* lines 379-381 with run_ansible, lines 227-255; method is args.method.
\* inventory[p]: an inventory file made by an invocation p is on disk
run_ansible(p) ==
    /\ pc[p] = "run_ansible"
    /\ \E raised \in RaisePoints, returncode \in {0, 2} :
          LET in_try == raised \in {"none", "subprocess_run"} IN
          /\ raised # "none" => returncode = 0
          /\ Log(p, <<"mkstemp_inventory">> \o
                    (IF raised = "none"
                     THEN <<"ansible_playbook", playbook(method[p])>> ELSE <<>>) \o
                    (IF in_try THEN <<"remove_inventory">> ELSE <<>>))
          /\ inventory' = [inventory EXCEPT ![p] = @ \/ ~in_try]
          /\ outcome' = [outcome EXCEPT ![p].ansible =
                            IF raised # "none" THEN "raised"
                            ELSE IF returncode # 0 THEN "fail" ELSE "ok"]
          /\ IF raised # "none" \/ returncode # 0
             THEN Exit(p, 1) ELSE Goto(p, "cleanup_old_runs")
    /\ UNCHANGED <<now, tmp, plugin_cache, live,
                   tfvars, state_record, method, kubefile, run_dir, vars, cluster_exists, created,
                   bind, reruns, call, ret>>

\* line 384 with cleanup_old_runs, lines 386-389: the stale entries are removed
\* in order; the first removal that fails raises and ends the pass
cleanup_old_runs(p) ==
    /\ pc[p] = "cleanup_old_runs"
    /\ \E stale \in {old_runs(tmp)} :
       \E k \in 0..Len(stale) :
          LET removed == {stale[i] : i \in 1..k} IN
          /\ tmp' = tmp \ removed
          /\ kubefile' = [d \in AllNames |->
                            IF d \in removed THEN None ELSE kubefile[d]]
          /\ Log(p, <<"cleanup_old_runs">>)
          /\ Exit(p, IF k = Len(stale) THEN 0 ELSE 1)
    /\ UNCHANGED <<now, plugin_cache, live,
                   tfvars, state_record, method, run_dir, vars, cluster_exists, created, bind,
                   reruns, call, ret, inventory, outcome>>

\* run_command does not catch the FileNotFoundError subprocess.run raises when
\* the executable is missing (lines 31-38): the step about to start ends the
\* run at its first command, which then has no effect
StepsWithCommands == {"install_dependency", "set_gcp_project",
                      "check_cluster_exists", "create_cluster",
                      "set_kubernetes_context", "verify_kubectl_connectivity"}

run_command_raises(p) ==
    /\ pc[p] \in StepsWithCommands
    /\ created' = IF pc[p] = "create_cluster"
                  THEN [created EXCEPT ![p]["cluster"] = @ + 1] ELSE created
    /\ Exit(p, 1)
    /\ UNCHANGED <<now, tmp, plugin_cache, live, tfvars, state_record, method,
                   kubefile, run_dir, vars, cluster_exists, trace, bind,
                   reruns, call, ret, inventory, outcome>>

\* lines 393-394: the program is started again after a run has ended; the new
\* process starts from fresh globals
main_again(p) ==
    /\ pc[p] = "exit"
    /\ reruns[p] > 0
    /\ reruns' = [reruns EXCEPT ![p] = @ - 1]
    /\ pc' = [pc EXCEPT ![p] = "prepare_running_directory"]
    /\ exit_code' = [exit_code EXCEPT ![p] = Running]
    /\ run_dir' = [run_dir EXCEPT ![p] = 0]
    /\ vars' = [vars EXCEPT ![p] = EmptyDict]
    /\ cluster_exists' = [cluster_exists EXCEPT ![p] = "unset"]
    /\ created' = [created EXCEPT ![p] = [k \in Kinds |-> 0]]
    /\ trace' = [trace EXCEPT ![p] = <<>>]
    /\ bind' = [bind EXCEPT ![p] = NoBind]
    /\ outcome' = [outcome EXCEPT ![p] = NoOutcome]
    /\ UNCHANGED <<now, tmp, plugin_cache, live, tfvars, state_record, method,
                   kubefile, call, ret, inventory>>

\* a second of wall-clock time passes (the clock is read by
\* prepare_running_directory only)
Tick ==
    /\ now < LastNow
    /\ \E p \in Procs : pc[p] = "prepare_running_directory"
    /\ now' = now + 1
    /\ UNCHANGED <<tmp, plugin_cache, live,
                   tfvars, state_record, method, kubefile, pc, run_dir, vars, cluster_exists,
                   created, trace, bind, exit_code, reruns, call, ret, inventory, outcome>>

\* what the invocations share when they start: the clock, /tmp, the plugin
\* cache, the cloud, the variable file of the checkout, and nothing run yet
InitEnv ==
    /\ now = FirstNow
    /\ tmp \in {{}, OldNames \cup LateNames}
    /\ live \in LiveSets
    /\ kubefile = [d \in AllNames |-> None]
    /\ run_dir = [p \in Procs |-> 0]
    /\ vars = [p \in Procs |-> EmptyDict]
    /\ cluster_exists = [p \in Procs |-> "unset"]
    /\ created = [p \in Procs |-> [k \in Kinds |-> 0]]
    /\ trace = [p \in Procs |-> <<>>]
    /\ bind = [p \in Procs |-> NoBind]
    /\ exit_code = [p \in Procs |-> Running]
    /\ inventory = [p \in Procs |-> FALSE]
    /\ outcome = [p \in Procs |-> NoOutcome]

\* one invocation of the program, in any environment, run again up to
\* MaxReruns times after it has ended
Init ==
    /\ InitEnv
    /\ plugin_cache \in BOOLEAN
    /\ tfvars \in TfvarsFiles
    /\ state_record \in BOOLEAN
    /\ \E m \in Methods : method = [p \in Procs |-> m]
    /\ pc = [p \in Procs |-> IF p = 1 THEN "prepare_running_directory"
                                       ELSE "not_invoked"]
    /\ reruns = [p \in Procs |-> IF p = 1 THEN MaxReruns ELSE 0]
    /\ call = <<>>
    /\ ret = <<>>

\* the invocations that overlap: two of them
Overlapping == {p \in Procs : p <= 2}

\* two invocations of the program from one checkout whose variable file is
\* complete and whose terraform state is empty, with the default method
InitConcurrent ==
    /\ InitEnv
    /\ plugin_cache = TRUE
    /\ tfvars = CompleteFile
    /\ state_record = FALSE
    /\ method = [p \in Procs |-> "kubectl"]
    /\ pc = [p \in Procs |-> IF p \in Overlapping THEN "prepare_running_directory"
                                                  ELSE "not_invoked"]
    /\ reruns = [p \in Procs |-> 0]
    /\ call = <<>>
    /\ ret = <<>>

\* a step of the run of invocation p
Step(p) ==
    \/ prepare_running_directory(p)
    \/ install_dependency(p)
    \/ main_read_tfvars(p)
    \/ set_gcp_project(p)
    \/ check_cluster_exists(p)
    \/ create_cluster(p)
    \/ set_kubernetes_context(p)
    \/ verify_kubectl_connectivity(p)
    \/ run_ansible(p)
    \/ cleanup_old_runs(p)
    \/ run_command_raises(p)

Next ==
    \/ Tick
    \/ \E p \in Procs : Step(p) \/ main_again(p)

\* the invocations run once each
NextConcurrent ==
    \/ Tick
    \/ \E p \in Procs : Step(p)

Spec == Init /\ [][Next]_allvars

SpecConcurrent == InitConcurrent /\ [][NextConcurrent]_allvars

(* ------------------- calls of the functions on their own ---------------- *)
\* texts a command can print
Stdouts == {<<>>, <<"[", "]">>, <<"[", Obj, "]">>, <<"[", Obj, Obj, "]">>,
            <<"{}">>, <<"0">>, <<"ERROR">>}

Processes == {NotFound} \cup {Completed(rc, out) : rc \in {0, 1, 2}, out \in Stdouts}

\* lines a variable file can hold
TfvarsLines ==
    { KeyLine("project", <<"p1">>),
      <<"zone", "=", "z1", "\n">>,
      Comment,
      <<"\n">>,
      <<"url", " ", "=", " ", QUOTE, "a", "=", "b", QUOTE, "\n">>,
      <<" ", "project", "\t", "=", QUOTE, QUOTE, "\n">>,
      <<"=", "x", "\n">>,
      <<"k", "=", " ", QUOTE, " ", "v", " ", QUOTE, " ">> }

Texts == UNION {[1..n -> TfvarsLines] : n \in 0..MaxLines}

\* a call of run_command, check_resource_exists or read_tfvars by a caller
\* that is not main
InitCalls ==
    /\ InitEnv
    /\ tmp = {}
    /\ live = {}
    /\ plugin_cache = TRUE
    /\ tfvars = CompleteFile
    /\ state_record = FALSE
    /\ method = [p \in Procs |-> "kubectl"]
    /\ pc = [p \in Procs |-> "not_invoked"]
    /\ reruns = [p \in Procs |-> 0]
    /\ \/ \E process \in Processes :
             call = [fn |-> "run_command", process |-> process]
       \/ \E process \in Processes :
             call = [fn |-> "check_resource_exists", process |-> process]
       \/ \E lines \in Texts :
             call = [fn |-> "read_tfvars", lines |-> lines]
    /\ ret = <<>>

CallUnchanged ==
    UNCHANGED <<call, reruns, now, tmp, plugin_cache, live, tfvars, state_record,
                method, kubefile, pc, run_dir, vars, cluster_exists,
                created, trace, bind, exit_code, inventory, outcome>>

call_run_command ==
    /\ ret = <<>>
    /\ call.fn = "run_command"
    /\ ret' = run_command(call.process)
    /\ CallUnchanged

\* lines 93-98: the exception run_command lets through at line 94 goes on to
\* the caller of check_resource_exists
call_check_resource_exists ==
    /\ ret = <<>>
    /\ call.fn = "check_resource_exists"
    /\ \E output \in {run_command(call.process)} :
          ret' = IF output[1] = "raise" THEN output
                 ELSE Return(IF check_resource_exists(output[2])
                             THEN <<"True">> ELSE <<"False">>)
    /\ CallUnchanged

call_read_tfvars ==
    /\ ret = <<>>
    /\ call.fn = "read_tfvars"
    /\ ret' = Return(read_tfvars(call.lines))
    /\ CallUnchanged

NextCalls ==
    \/ call_run_command
    \/ call_check_resource_exists
    \/ call_read_tfvars

SpecCalls == InitCalls /\ [][NextCalls]_allvars

(* ---------------------- verify_kubernetes_context --------------------- *)
\* lines 312-322; result is what `kubectl config current-context` returned
verify_kubernetes_context(expected_project, expected_zone, expected_cluster, result) ==
    IF result # None /\ result # <<>>
    THEN LET current_context == strip(result, Whitespace)
             expected_context_ == context_name(expected_project, expected_zone,
                                               expected_cluster)
         IN current_context = expected_context_
    ELSE TRUE

Projects == {<<"p1">>, <<"p2">>, <<"p1", "_", "z1">>}
Zones == {<<"z1">>, <<"z2">>, <<"z1", "_", "c1">>}
Clusters == {<<"c1">>, <<"c2">>}

\* what `kubectl --kubeconfig=... config current-context` yields when the
\* active context of the file is active (empty: none is set)
CurrentContextOutputs(active) == {None, <<>>, active \o <<"\n">>}

\* a call of verify_kubernetes_context, with the state of the credential file
InitVerify ==
    /\ InitEnv
    /\ tmp = {}
    /\ live = {}
    /\ plugin_cache = TRUE
    /\ tfvars = CompleteFile
    /\ state_record = FALSE
    /\ method = [p \in Procs |-> "kubectl"]
    /\ pc = [p \in Procs |-> "not_invoked"]
    /\ reruns = [p \in Procs |-> 0]
    /\ \E p \in Projects, z \in Zones, c \in Clusters,
          active \in {context_name(<<"p1">>, <<"z1">>, <<"c1">>), OtherContext, <<>>} :
        \E result \in CurrentContextOutputs(active) :
          /\ call = [fn |-> "verify_kubernetes_context", expected_project |-> p,
                     expected_zone |-> z, expected_cluster |-> c,
                     active |-> active, result |-> result]
    /\ ret = <<>>

call_verify_kubernetes_context ==
    /\ ret = <<>>
    /\ ret' = IF verify_kubernetes_context(call.expected_project,
                                           call.expected_zone,
                                           call.expected_cluster, call.result)
              THEN <<"True">> ELSE <<"False">>
    /\ UNCHANGED <<call, reruns, now, tmp, plugin_cache, live, tfvars, state_record,
                   method, kubefile, pc, run_dir, vars, cluster_exists,
                   created, trace, bind, exit_code, inventory, outcome>>

NextVerify == call_verify_kubernetes_context

SpecVerify == InitVerify /\ [][NextVerify]_allvars

(* ------------------------------ properties ----------------------------- *)
\* the result of the existence check main evaluated for a kind: main evaluates
\* the cluster's only (line 358)
existence_check(p, k) == IF k = "cluster" THEN cluster_exists[p] ELSE "unset"

Events(p) == Range(trace[p])

\* C1: for every resource kind and every run, the creation action is invoked
\* if and only if the existence check of that run returned false: never twice,
\* never when the check returned true, and always once the check returned false
\* and control has passed the creation call.
C1_CreateIffCheckFalse ==
    \A p \in Procs, k \in Kinds :
        /\ created[p][k] <= 1
        /\ created[p][k] = 1 => existence_check(p, k) = "False"
        /\ (existence_check(p, k) = "False" /\ pc[p] # "create_cluster")
              => created[p][k] = 1

\* a run whose cluster check returned false and which has called create_cluster
C1_Witness ==
    \E p \in Procs :
        /\ cluster_exists[p] = "False"
        /\ created[p]["cluster"] = 1
        /\ pc[p] = "exit" /\ exit_code[p] = 0

ClusterScoped == {"cluster_info", "ansible_playbook", "get_pvc", "apply_pvc",
                  "apply_role_binding"}

\* C2: whenever a run has issued a cluster-scoped command, the expected
\* context was activated in the run's credential file and the active context
\* has been read back (kubectl config current-context) and found equal to it.
C2_BoundAndVerifiedFirst ==
    \A p \in Procs :
        Events(p) \cap ClusterScoped # {}
           => /\ bind[p].ret = "True" /\ bind[p].use = "ok"
              /\ "config_current_context" \in Events(p)

\* C3: set_kubernetes_context returns true exactly when fetching the
\* credentials, reading back the raw configuration and activating the context
\* all succeeded.
C3_BindFalseOnAnyFailure ==
    \A p \in Procs :
        bind[p].ret # "unset"
           => (bind[p].ret = "True"
                 <=> bind[p].creds = "ok" /\ bind[p].view = "ok" /\ bind[p].use = "ok")

\* C4: verify_kubernetes_context returns true exactly when the active context
\* of the credential file could be read and equals the expected name.
C4_VerifyFalseUnlessEqual ==
    ret # <<>>
       => (ret = <<"True">>
             <=> /\ call.result # None /\ call.result # <<>>
                 /\ call.active = context_name(call.expected_project,
                                               call.expected_zone,
                                               call.expected_cluster))

\* C5: a run whose existence check reported the target present performs no
\* creation action at all, the first run and every run after it.
C5_NoCreationWhenPresent ==
    \A p \in Procs :
        cluster_exists[p] = "True" => \A k \in Kinds : created[p][k] = 0

\* a second run of the program against a provisioned target has ended
\* successfully and created nothing
C5_Witness ==
    \E p \in Procs :
        /\ reruns[p] < MaxReruns
        /\ pc[p] = "exit" /\ exit_code[p] = 0
        /\ "cluster" \in live
        /\ cluster_exists[p] = "True"
        /\ \A k \in Kinds : created[p][k] = 0

\* position of the first occurrence of event e in the trace of p (0: none)
FirstAt(p, e) ==
    IF e \in Events(p) THEN find(trace[p], e) ELSE 0

\* C6: a successful run that found the cluster present while the disk and the
\* PVC are absent has invoked the disk creation and the PVC creation, has not
\* invoked the cluster creation, and logged that the cluster already exists
\* before any PVC action.
C6_CreatesDiskAndPvcOnly ==
    \A p \in Procs :
        (/\ pc[p] = "exit" /\ exit_code[p] = 0
         /\ cluster_exists[p] = "True"
         /\ "disk" \notin live /\ "pvc" \notin live)
           => /\ created[p]["disk"] = 1
              /\ created[p]["pvc"] = 1
              /\ created[p]["cluster"] = 0
              /\ "log_cluster_already_exists" \in Events(p)
              /\ \A e \in {"get_pvc", "apply_pvc"} :
                    e \in Events(p)
                       => FirstAt(p, "log_cluster_already_exists") < FirstAt(p, e)

\* the variables read_tfvars yields for the variable file of the checkout
Parsed == read_tfvars(tfvars.lines)

RequiredKeys == {K_project, K_zone, K_cluster_name}

MissingOrEmpty(d) == \E k \in RequiredKeys : ~has(d, k) \/ d[k] = <<>>

\* C7: a run ends with status 0 only when the variable file was read with its
\* keys, the cluster was present or created, every call of the context binder
\* succeeded and the deployment ran; it ends with status 1 whenever one of
\* these failed.
C7_ExitStatus ==
    \A p \in Procs :
        pc[p] = "exit"
           => LET ok == /\ tfvars.exists
                        /\ RequiredKeys \subseteq DOMAIN vars[p]
                        /\ cluster_exists[p] # "unset"
                        /\ bind[p].creds = "ok" /\ bind[p].view = "ok"
                        /\ bind[p].use = "ok"
                        /\ "ansible_playbook" \in Events(p)
              IN /\ exit_code[p] = 0 => ok
                 /\ ~ok => exit_code[p] = 1

\* what a run does to the world outside its own run directory
SideEffects == {"rmtree_plugin_cache", "install_dependency",
                "gcloud_config_set_project", "list_clusters", "terraform_init",
                "terraform_show", "terraform_state_rm", "terraform_apply",
                "get_credentials", "config_view", "use_context", "cluster_info",
                "ansible_playbook", "cleanup_old_runs"}

\* C8: when project, zone or cluster_name is missing or empty in the parsed
\* variables, the run ends with status 1 and has caused no side effect.
C8_FailsBeforeSideEffects ==
    \A p \in Procs :
        (pc[p] = "exit" /\ tfvars.exists /\ MissingOrEmpty(Parsed))
           => /\ exit_code[p] = 1
              /\ Events(p) \cap SideEffects = {}

\* C9: two invocations never have the same run directory (and so never the
\* same credential file, which lives in it).
C9_DistinctRunDirs ==
    \A p, q \in Procs :
        (p # q /\ run_dir[p] # 0 /\ run_dir[q] # 0) => run_dir[p] # run_dir[q]

\* C10: a pruning pass removes neither the run directory of the run that
\* executes it nor the run directory of another invocation that has not ended.
C10_NoPruneOfDirInUse ==
    [][\A p, q \in Procs :
          (/\ pc[p] = "cleanup_old_runs" /\ pc'[p] = "exit"
           /\ run_dir[q] \in tmp
           /\ (q = p \/ pc[q] # "exit"))
             => run_dir[q] \in tmp']_allvars

\* C11: a removal that fails during a pruning pass ends neither the pass nor
\* the run: the run still ends with status 0, and of the stale directories at
\* most the one whose removal failed is left.
C11_FailedRemovalSkipped ==
    [][\A p \in Procs :
          (pc[p] = "cleanup_old_runs" /\ pc'[p] = "exit")
             => /\ exit_code'[p] = 0
                /\ Cardinality(Range(old_runs(tmp)) \cap tmp') <= 1]_allvars

\* the max_runs entries of S that sort last
MostRecent(S) == {d \in S : Cardinality({e \in S : e > d}) < max_runs}

\* C12: a pruning pass that ends the run with status 0 leaves exactly the
\* max_runs most recent (by name) of the run directories that were there when
\* it started, so at most max_runs of them, and has removed every older one.
C12_KeepsMostRecent ==
    [][\A p \in Procs :
          (pc[p] = "cleanup_old_runs" /\ pc'[p] = "exit" /\ exit_code'[p] = 0)
             => /\ tmp' = MostRecent(tmp)
                /\ Cardinality(tmp') <= max_runs
                /\ \A d \in tmp \ MostRecent(tmp) : d \notin tmp']_allvars

\* a run has ended with status 0 after a pass that pruned its own directory
\* and the older ones
C12_Witness ==
    \E p \in Procs :
        /\ pc[p] = "exit" /\ exit_code[p] = 0
        /\ "cleanup_old_runs" \in Events(p)
        /\ Cardinality(tmp) = max_runs
        /\ run_dir[p] \notin tmp
        /\ tmp \cap OldNames = {}

\* C13: no inventory file made by run_ansible is on disk once run_ansible has
\* returned or let an exception through, whatever the exit path after the
\* file was made.
C13_NoInventoryLeft ==
    \A p \in Procs : ~inventory[p]

\* C14: run_command never raises to its caller: it returns None when the
\* command ended with a non-zero status and when the executable could not be
\* found, and the captured stdout when the command ended with status 0.
C14_RunCommandNeverRaises ==
    (call.fn = "run_command" /\ ret # <<>>)
       => /\ ret[1] = "return"
          /\ ret[2] = IF call.process.started /\ call.process.returncode = 0
                      THEN call.process.stdout ELSE None

\* the listing ended with status 0 and printed a list of at least one object
Listed(process) ==
    /\ process.started /\ process.returncode = 0
    /\ json_list(process.stdout) /\ Len(process.stdout) > 2

\* C15: check_resource_exists returns True exactly when the listing succeeded
\* with a non-empty parseable result, and False, never an exception, when the
\* command failed, printed nothing parseable or printed an empty listing.
C15_ExistsIffListed ==
    (call.fn = "check_resource_exists" /\ ret # <<>>)
       => /\ ret[1] = "return"
          /\ ret[2] = IF Listed(call.process) THEN <<"True">> ELSE <<"False">>

\* how many times run p has issued command e
Count(p, e) == Cardinality({i \in DOMAIN trace[p] : trace[p][i] = e})

\* C16: when create_cluster gets to the apply step, the apply step is invoked
\* exactly once; if the terraform state staged for the run holds a record of
\* the cluster, that record has been dropped by a state rm issued before the
\* apply, and if it holds none, no record has been dropped.
C16_StaleRecordDropped ==
    \A p \in Procs :
        "terraform_apply" \in Events(p)
           => /\ Count(p, "terraform_apply") = 1
              /\ state_record
                    => /\ outcome[p].rm = "ok"
                       /\ FirstAt(p, "terraform_state_rm") < FirstAt(p, "terraform_apply")
              /\ ~state_record => outcome[p].rm # "ok"

\* C17: whenever ansible-playbook is invoked, it is given the chart playbook
\* deploy_jenkins_helm.yml exactly when the method is helm and the manifest
\* playbook deploy_jenkins.yml exactly when the method is kubectl, so never
\* the same playbook for both methods and never both in one run.
C17_PlaybookByMethod ==
    \A p \in Procs :
        "ansible_playbook" \in Events(p)
           => /\ "deploy_jenkins_helm.yml" \in Events(p) <=> method[p] = "helm"
              /\ "deploy_jenkins.yml" \in Events(p) <=> method[p] = "kubectl"
              /\ ~({"deploy_jenkins.yml", "deploy_jenkins_helm.yml"} \subseteq Events(p))

\* a run with --method helm has invoked ansible-playbook on the chart playbook
C17_Witness ==
    \E p \in Procs :
        /\ method[p] = "helm"
        /\ "ansible_playbook" \in Events(p)
        /\ "deploy_jenkins_helm.yml" \in Events(p)

Min(S) == CHOOSE x \in S : \A y \in S : x <= y

\* s without its leading and trailing atoms that are in chars
Trimmed(s, chars) ==
    LET keep == {i \in DOMAIN s : s[i] \notin chars}
    IN IF keep = {} THEN <<>> ELSE SubSeq(s, Min(keep), Max(keep))

HasEq(line) == "=" \in Range(line)
FirstEq(line) == Min({i \in DOMAIN line : line[i] = "="})

\* the text before the first '=', trimmed
KeyOf(line) == Trimmed(SubSeq(line, 1, FirstEq(line) - 1), Whitespace)

\* the text after the first '=', trimmed of whitespace, then of double quotes
ValueOf(line) ==
    Trimmed(Trimmed(SubSeq(line, FirstEq(line) + 1, Len(line)), Whitespace), {QUOTE})

\* C18: read_tfvars returns (it does not raise) a mapping whose keys are the
\* trimmed texts before the first '=' of the lines that contain '=', each
\* mapped to the text after that '=' trimmed of whitespace and of the double
\* quotes around it (of the last such line, when a key comes twice); lines
\* without '=' add nothing.
C18_TfvarsMapping ==
    (call.fn = "read_tfvars" /\ ret # <<>>)
       => /\ ret[1] = "return"
          /\ LET d == ret[2]
                 lines == call.lines
                 WithEq == {i \in DOMAIN lines : HasEq(lines[i])}
             IN /\ DOMAIN d = {KeyOf(lines[i]) : i \in WithEq}
                /\ \A i \in WithEq :
                      (\A j \in WithEq : j > i => KeyOf(lines[j]) # KeyOf(lines[i]))
                         => d[KeyOf(lines[i])] = ValueOf(lines[i])

\* read_tfvars has read a file with a line that has no '=' and a line with
\* two of them and a quoted value
C18_Witness ==
    /\ call.fn = "read_tfvars" /\ ret # <<>>
    /\ \E i \in DOMAIN call.lines : ~HasEq(call.lines[i])
    /\ <<"url">> \in DOMAIN ret[2]
    /\ ret[2][<<"url">>] = <<"a", "=", "b">>

\* C19: nothing keeps two overlapping invocations from both creating the
\* cluster: whenever two invocations have both been told that the cluster is
\* absent and both are past the creation step, both have invoked
\* create_cluster, whatever the other one had done by then.
C19_BothCreate ==
    \A p, q \in Procs :
        (/\ p # q
         /\ cluster_exists[p] = "False" /\ cluster_exists[q] = "False"
         /\ pc[p] # "create_cluster" /\ pc[q] # "create_cluster")
           => created[p]["cluster"] = 1 /\ created[q]["cluster"] = 1

\* two invocations that both found the cluster absent have both invoked
\* create_cluster and both applies went through
C19_Witness ==
    \E p, q \in Procs :
        /\ p # q
        /\ cluster_exists[p] = "False" /\ cluster_exists[q] = "False"
        /\ created[p]["cluster"] = 1 /\ created[q]["cluster"] = 1
        /\ outcome[p].apply = "ok" /\ outcome[q].apply = "ok"

\* what the steps of main leave in the trace, from the context bind on
BindEvents == {"get_credentials", "config_view", "use_context"}
DeployEvents == {"mkstemp_inventory", "ansible_playbook", "remove_inventory"}
PruneEvents == {"cleanup_old_runs"}

\* C20: run_ansible is invoked only after the cluster was found present or
\* its creation succeeded, set_kubernetes_context returned True and cluster-info
\* succeeded; the pruning pass is invoked only after the deployment succeeded;
\* and after a fatal failure of a step the run ends with status 1 and no later
\* step has been executed.
C20_StepOrder ==
    \A p \in Procs :
        /\ Events(p) \cap DeployEvents # {}
              => /\ cluster_exists[p] = "True" \/ outcome[p].apply = "ok"
                 /\ bind[p].ret = "True"
                 /\ outcome[p].cluster_info = "ok"
        /\ Events(p) \cap PruneEvents # {} => outcome[p].ansible = "ok"
        /\ outcome[p].apply = "fail"
              => /\ exit_code[p] = 1
                 /\ Events(p) \cap (BindEvents \cup {"cluster_info"} \cup
                                     DeployEvents \cup PruneEvents) = {}
        /\ bind[p].ret = "False"
              => /\ exit_code[p] = 1
                 /\ Events(p) \cap ({"cluster_info"} \cup DeployEvents \cup
                                     PruneEvents) = {}
        /\ outcome[p].cluster_info = "fail"
              => /\ exit_code[p] = 1
                 /\ Events(p) \cap (DeployEvents \cup PruneEvents) = {}
        /\ outcome[p].ansible \in {"fail", "raised"}
              => /\ exit_code[p] = 1
                 /\ Events(p) \cap PruneEvents = {}

\* a run has created the cluster, bound the context, checked the connection,
\* deployed and pruned
C20_Witness ==
    \E p \in Procs :
        /\ cluster_exists[p] = "False" /\ outcome[p].apply = "ok"
        /\ bind[p].ret = "True"
        /\ outcome[p].cluster_info = "ok"
        /\ outcome[p].ansible = "ok"
        /\ "cleanup_old_runs" \in Events(p)

====
